---- MODULE Spec2Model ----
(***************************************************************************)
(* Model of code-server-proxy (package proxy): the backend registry with   *)
(* its radix routing table and alias index, the register / remove          *)
(* handlers, the dispatch lookups, and the websocket duplex tunnel.        *)
(*                                                                         *)
(* Strings are sequences of one-character strings, so that concatenation,  *)
(* prefix tests and path.Dir are computed and not assumed.                 *)
(***************************************************************************)
EXTENDS Integers, Sequences, FiniteSets, TLC

VARIABLES
    servers,      \* p.code.Servers: sequence of [Path, Alias, Port]
    portMap,      \* p.portMap: radix tree, as a function key -> port
    aliasToPath,  \* p.aliasToPath: map alias -> path
    writes,       \* the `go WriteConfig(...)` goroutines started, in order
    arr,          \* the backing array p.code.Servers currently points into
    file,         \* the configuration file: what the proxy last wrote to it
    last,         \* the last management request and its response
    ops,          \* number of management requests handled so far
    hpc,          \* concurrent handlers: position of each handler goroutine
    hreq,         \* concurrent handlers: the request each handler is serving
    observed,     \* concurrent handlers: what the last dispatch lookup saw
    wpc,          \* websocketHandler: position in the handler
    wstatus,      \* websocketHandler: HTTP status written (0 = none)
    back,         \* backend-facing websocket connection: "none"|"open"|"closed"
    front,        \* client-facing websocket connection: "none"|"open"|"closed"
    peer,         \* whether the remote ends are still open: [back, front]
    inq,          \* inq[c]: messages sent by the remote end of c, not yet read
    outq,         \* outq[c]: messages the proxy has written to connection c
    sent,         \* sent[c]: every message the remote end of c has sent
    rpc,          \* rpc[d]: position of the transfer goroutine of direction d
    rmsg,         \* rmsg[d]: the message direction d holds between read and write
    chan,         \* chan[d]: receives completed on the channel of direction d
    first,        \* the direction whose signal the select received ("none" before)
    fwd,          \* the last forwarded request: inputs, dispatch result and reply
    health        \* the last health request: probe outcomes and the answer

regVars == <<servers, portMap, aliasToPath, writes, arr, file, last, ops>>
concVars == <<hpc, hreq, observed>>
tunVars == <<wpc, wstatus, back, front, peer, inq, outq, sent, rpc, rmsg, chan, first>>
auxVars == <<fwd, health>>
vars == <<regVars, concVars, tunVars, auxVars>>

----------------------------------------------------------------------------
(* Bounds and input sets                                                   *)

MaxInit == 2      \* backends in the initial configuration
MaxOps == 3       \* management requests in one run
NumHandlers == 2  \* concurrently running management handlers
MaxConcOps == 2   \* management requests started in one concurrent run
MaxMsgs == 2      \* messages each remote end sends in one tunnel session

SL == "/"
Dot == <<".">>
DotDot == <<".", ".">>

Folders == { <<SL, "a">>, <<SL, "b">>, <<SL, "a", SL, "a">>,
             <<SL, "a", SL, "b">>, <<SL, "c", SL, "d">> }
Names == { <<"a">>, <<"b">> }
InitPorts == { 1, 2 }
PortStrs == { <<"1">>, <<"2">>, <<"3">>, <<"x">> }
Suffixes == { <<"a">>, <<"b">>, <<"x">>, <<"l", "o", "g", "i", "n">> }

NoPort == 0 - 1    \* a nil interface{} value: no port
NoServer == [Path |-> <<>>, Alias |-> <<>>, Port |-> NoPort]
EmptyTree == [k \in {} |-> 0]

----------------------------------------------------------------------------
(* Strings                                                                 *)

HasPrefix(s, k) == Len(k) <= Len(s) /\ SubSeq(s, 1, Len(k)) = k

TrimPrefix(s, k) == IF HasPrefix(s, k) THEN SubSeq(s, Len(k) + 1, Len(s)) ELSE s

SlashName(name) == <<SL>> \o name

Digit(c) ==
    CASE c = "0" -> 0 [] c = "1" -> 1 [] c = "2" -> 2 [] c = "3" -> 3
      [] c = "4" -> 4 [] c = "5" -> 5 [] c = "6" -> 6 [] c = "7" -> 7
      [] c = "8" -> 8 [] c = "9" -> 9 [] OTHER -> -1

RECURSIVE DigitsValue(_, _)
DigitsValue(s, acc) ==
    IF s = <<>> THEN acc
    ELSE IF Digit(Head(s)) < 0 THEN -1
    ELSE DigitsValue(Tail(s), acc * 10 + Digit(Head(s)))

\* strconv.Atoi: optional sign, then one or more decimal digits.
Atoi(s) ==
    LET signed == s # <<>> /\ Head(s) \in {"+", "-"}
        digits == IF signed THEN Tail(s) ELSE s
        v == IF digits = <<>> THEN -1 ELSE DigitsValue(digits, 0)
    IN  IF v < 0 THEN [ok |-> FALSE, val |-> 0]
        ELSE [ok |-> TRUE, val |-> IF signed /\ Head(s) = "-" THEN 0 - v ELSE v]

----------------------------------------------------------------------------
(* path.Dir                                                                *)

RECURSIVE SplitSlash(_)
SplitSlash(s) ==
    IF s = <<>> THEN << <<>> >>
    ELSE LET rest == SplitSlash(Tail(s))
         IN  IF Head(s) = SL THEN << <<>> >> \o rest
             ELSE << <<Head(s)>> \o Head(rest) >> \o Tail(rest)

RECURSIVE CleanSegs(_, _, _)
CleanSegs(segs, out, rooted) ==
    IF segs = <<>> THEN out
    ELSE LET e == Head(segs)
             r == Tail(segs)
         IN  IF e = <<>> \/ e = Dot THEN CleanSegs(r, out, rooted)
             ELSE IF e = DotDot
                  THEN IF out # <<>> /\ out[Len(out)] # DotDot
                       THEN CleanSegs(r, SubSeq(out, 1, Len(out) - 1), rooted)
                       ELSE IF rooted THEN CleanSegs(r, out, rooted)
                       ELSE CleanSegs(r, Append(out, DotDot), rooted)
                  ELSE CleanSegs(r, Append(out, e), rooted)

RECURSIVE JoinSlash(_)
JoinSlash(segs) ==
    IF segs = <<>> THEN <<>>
    ELSE IF Len(segs) = 1 THEN Head(segs)
    ELSE Head(segs) \o <<SL>> \o JoinSlash(Tail(segs))

Clean(s) ==
    IF s = <<>> THEN Dot
    ELSE LET rooted == Head(s) = SL
             body == JoinSlash(CleanSegs(SplitSlash(s), <<>>, rooted))
         IN  IF rooted THEN <<SL>> \o body
             ELSE IF body = <<>> THEN Dot ELSE body

LastSlash(s) ==
    LET idx == { i \in 1..Len(s) : s[i] = SL }
    IN  IF idx = {} THEN 0 ELSE CHOOSE i \in idx : \A j \in idx : j <= i

Dir(s) == Clean(SubSeq(s, 1, LastSlash(s)))

----------------------------------------------------------------------------
(* Radix tree (github.com/armon/go-radix) as used through p.portMap        *)

Insert(t, k, v) == [x \in (DOMAIN t) \cup {k} |-> IF x = k THEN v ELSE t[x]]

Delete(t, k) == [x \in (DOMAIN t) \ {k} |-> t[x]]

Get(t, k) ==
    IF k \in DOMAIN t THEN [ok |-> TRUE, val |-> t[k]]
    ELSE [ok |-> FALSE, val |-> NoPort]

ShortestPrefix(t, s) ==
    LET cands == { k \in DOMAIN t : HasPrefix(s, k) }
    IN  IF cands = {} THEN [ok |-> FALSE, key |-> <<>>, val |-> NoPort]
        ELSE LET k == CHOOSE x \in cands : \A y \in cands : Len(x) <= Len(y)
             IN  [ok |-> TRUE, key |-> k, val |-> t[k]]

LongestPrefix(t, s) ==
    LET cands == { k \in DOMAIN t : HasPrefix(s, k) }
    IN  IF cands = {} THEN [ok |-> FALSE, key |-> <<>>, val |-> NoPort]
        ELSE LET k == CHOOSE x \in cands : \A y \in cands : Len(y) <= Len(x)
             IN  [ok |-> TRUE, key |-> k, val |-> t[k]]

----------------------------------------------------------------------------
(* Registry                                                                *)

Server(folder, name, port) == [Path |-> folder, Alias |-> name, Port |-> port]

InsertServerNoAlias(t, s) == Insert(Insert(t, s.Path, s.Port), Dir(s.Path), s.Port)

\* The three routing entries of one server: path, parent directory, "/alias".
InsertServer(t, s) ==
    Insert(Insert(Insert(t, s.Path, s.Port), Dir(s.Path), s.Port),
           SlashName(s.Alias), s.Port)

RECURSIVE BuildPortMap(_, _)
BuildPortMap(svrs, t) ==
    IF svrs = <<>> THEN t
    ELSE BuildPortMap(Tail(svrs), InsertServer(t, Head(svrs)))

RECURSIVE BuildAliasToPath(_, _)
BuildAliasToPath(svrs, m) ==
    IF svrs = <<>> THEN m
    ELSE BuildAliasToPath(Tail(svrs),
            [x \in (DOMAIN m) \cup {Head(svrs).Alias} |->
                IF x = Head(svrs).Alias THEN Head(svrs).Path ELSE m[x]])

\* registerHandler, the duplicate check: some server has the alias or the port.
ConflictAliasOnly(svrs, name, port) == \E i \in 1..Len(svrs) : svrs[i].Alias = name

Conflict(svrs, name, port) ==
    \E i \in 1..Len(svrs) : svrs[i].Alias = name \/ svrs[i].Port = port

\* removeHandler, the loop: drop the first server whose alias is name.
RemoveServer(svrs, name) ==
    LET idx == { i \in 1..Len(svrs) : svrs[i].Alias = name }
    IN  IF idx = {} THEN svrs
        ELSE LET i == CHOOSE x \in idx : \A y \in idx : x <= y
             IN  SubSeq(svrs, 1, i - 1) \o SubSeq(svrs, i + 1, Len(svrs))

\* The index removeHandler's loop stops at (0: no backend has the alias).
CutIndex(svrs, name) ==
    LET idx == { i \in 1..Len(svrs) : svrs[i].Alias = name }
    IN  IF idx = {} THEN 0 ELSE CHOOSE x \in idx : \A y \in idx : x <= y

\* removeHandler's append(s[:i], s[i+1:]...) seen on the backing array a of the
\* slice s of length n: the elements after i move one place down, in place;
\* place n keeps its old element and the array keeps its length.
Cut(a, n, i) ==
    IF i = 0 THEN a
    ELSE [k \in 1..Len(a) |-> IF i <= k /\ k < n THEN a[k + 1] ELSE a[k]]

\* registerHandler's append(s, e) on the backing array a of the slice s of
\* length n.  With room behind the slice the element is stored in place; else
\* the runtime copies the slice to a new array.
AppendArr(a, n, e, realloc) ==
    IF realloc THEN Append(SubSeq(a, 1, n), e)
    ELSE [k \in 1..(IF Len(a) > n THEN Len(a) ELSE n + 1) |->
             IF k = n + 1 THEN e ELSE a[k]]

\* Whether append moves the slice: an array longer than the slice has room for
\* sure; otherwise the capacity (set by yaml.Unmarshal and by the runtime's
\* growth rule) decides, and both outcomes are taken.
Reallocs(a, n) == IF Len(a) > n THEN { FALSE } ELSE BOOLEAN

\* The configuration file.  Until a WriteConfig has written it, it is as
\* LoadConfig read it at start; after that it holds the backends last written.
Loaded == [written |-> FALSE, servers |-> <<>>]
Written(y) == [written |-> TRUE, servers |-> y]

\* One `go WriteConfig(p.code, p.config)` goroutine.  The go statement copies
\* the Code struct, that is the slice header: the goroutine holds the first n
\* places of a backing array.  shared: that array is still the one
\* p.code.Servers points into; own: the elements, once p.code.Servers has moved
\* to another array; done: WriteConfig has returned; err: ioutil.WriteFile
\* failed in it.
GoWrite(n) == [n |-> n, shared |-> TRUE, own |-> <<>>, done |-> FALSE, err |-> FALSE]

\* What yaml.Marshal(c) reads through the goroutine's slice header.
Marshal(w, a) == IF w.shared THEN SubSeq(a, 1, w.n) ELSE w.own

\* An append that moves p.code.Servers leaves the goroutines started before
\* it with the old array, which nothing changes any more.
Detach(ws, a) ==
    [i \in 1..Len(ws) |->
        IF ws[i].shared /\ ~ws[i].done
        THEN [ws[i] EXCEPT !.shared = FALSE, !.own = Marshal(ws[i], a)]
        ELSE ws[i]]

\* registerHandler: `go WriteConfig(p.code, p.config)` after the append.
GoWriteConfig(ws, a, n, realloc) ==
    Append(IF realloc THEN Detach(ws, a) ELSE ws, GoWrite(n + 1))

RemoveRouteKept(t, name) == t

\* removeHandler: p.portMap.Delete("/" + name)
RemoveRoute(t, name) == Delete(t, SlashName(name))

RemoveAliasKept(m, name) == m

\* removeHandler: delete(p.aliasToPath, name)
RemoveAlias(m, name) == [x \in (DOMAIN m) \ {name} |-> m[x]]

FindServer(svrs, name) ==
    LET idx == { i \in 1..Len(svrs) : svrs[i].Alias = name }
    IN  IF idx = {} THEN NoServer
        ELSE svrs[CHOOSE x \in idx : \A y \in idx : x <= y]

----------------------------------------------------------------------------
(* Dispatch lookups                                                        *)

HostToken == "http://localhost"

\* url.Parse(referer).Path for an absolute URL (scheme and host are one token
\* of the sequence) or a relative reference.
UrlPath(u) == IF u # <<>> /\ Head(u) = HostToken THEN Tail(u) ELSE u

\* url.Parse: a reference that starts with ":" has no scheme in front of the
\* colon and is refused ("missing protocol scheme").
UrlParse(u) == [err |-> u # <<>> /\ Head(u) = ":", Path |-> UrlPath(u)]

GetPortNoReferer(svrs, t, uri, referer) ==
    LET lp == LongestPrefix(t, uri)
    IN  IF svrs = <<>> THEN [fatal |-> FALSE, panic |-> TRUE, port |-> NoPort]
        ELSE [fatal |-> FALSE, panic |-> FALSE,
              port |-> IF lp.ok THEN lp.val ELSE svrs[1].Port]

\* getPort: resolve on the referer's path when there is a referer, fall back
\* to the first server.  A referer that does not parse ends in logger.Fatalf
\* (fatal); indexing an empty p.code.Servers panics.
GetPort(svrs, t, uri, referer) ==
    LET u == UrlParse(referer)
        requestPath == IF referer # <<>> THEN u.Path ELSE uri
        lp == LongestPrefix(t, requestPath)
    IN  IF referer # <<>> /\ u.err
        THEN [fatal |-> TRUE, panic |-> FALSE, port |-> NoPort]
        ELSE IF svrs = <<>> THEN [fatal |-> FALSE, panic |-> TRUE, port |-> NoPort]
        ELSE [fatal |-> FALSE, panic |-> FALSE,
              port |-> IF lp.ok THEN lp.val ELSE svrs[1].Port]

LoginPath == <<SL, "l", "o", "g", "i", "n">>

CleanRequestPathNoStrip(t, requestPath) ==
    [prefix |-> <<>>, path |-> requestPath]

CleanRequestPathNoLogin(t, requestPath) ==
    LET prefix == LongestPrefix(t, requestPath).key
    IN  [prefix |-> prefix, path |-> TrimPrefix(requestPath, prefix)]

\* cleanRequestPath: cut the longest matching key off the front, put "/login"
\* in front once more when the rest starts with it.  `prefix` is the local
\* variable of that name.
CleanRequestPath(t, requestPath) ==
    LET prefix == LongestPrefix(t, requestPath).key
        rest == TrimPrefix(requestPath, prefix)
    IN  [prefix |-> prefix,
         path |-> IF HasPrefix(rest, LoginPath) THEN LoginPath \o rest ELSE rest]

----------------------------------------------------------------------------
(* Sequential management requests                                          *)

NoReq == [op |-> "none", decoded |-> FALSE, folder |-> <<>>, name |-> <<>>,
          port |-> <<>>, status |-> 0, removed |-> NoServer, reuse |-> FALSE]

NoObs == [name |-> <<>>, inServers |-> FALSE, inIndex |-> FALSE, routed |-> FALSE]

DistinctConfig(svrs) ==
    \A i, j \in 1..Len(svrs) :
        i # j => svrs[i].Alias # svrs[j].Alias /\ svrs[i].Port # svrs[j].Port

InitServerSet == { Server(f, n, q) : f \in Folders, n \in Names, q \in InitPorts }

InitConfigs ==
    { c \in UNION { [1..n -> InitServerSet] : n \in 0..MaxInit } : DistinctConfig(c) }

ConcIdle ==
    /\ hpc = [h \in {} |-> "idle"]
    /\ hreq = [h \in {} |-> NoReq]
    /\ observed = NoObs

TunnelIdle ==
    /\ wpc = "idle"
    /\ wstatus = 0
    /\ back = "none"
    /\ front = "none"
    /\ peer = [c \in {} |-> TRUE]
    /\ inq = [c \in {} |-> <<>>]
    /\ outq = [c \in {} |-> <<>>]
    /\ sent = [c \in {} |-> <<>>]
    /\ rpc = [d \in {} |-> "idle"]
    /\ rmsg = [d \in {} |-> 0]
    /\ chan = [d \in {} |-> 0]
    /\ first = "none"

NoResp == [err |-> FALSE, status |-> 0, hdr |-> {}, body |-> <<>>, cerr |-> FALSE,
           cut |-> 0]

NoReply == [status |-> 0, hdr |-> {}, body |-> <<>>]

NoFwd == [op |-> "none", method |-> "", upgrade |-> FALSE, handler |-> "",
          uri |-> <<>>, referer |-> <<>>, at |-> 0, exit |-> FALSE,
          panic |-> FALSE,
          port |-> NoPort, prefix |-> <<>>, path |-> <<>>, resp |-> NoResp,
          reply |-> NoReply]

NoHealth == [op |-> "none", name |-> <<>>, probes |-> <<>>, status |-> 0, entries |-> <<>>, logged |-> 0]

AuxIdle ==
    /\ fwd = NoFwd
    /\ health = NoHealth

\* NewProxy on a loaded configuration.
NewProxy(code) ==
    /\ servers = code
    /\ portMap = BuildPortMap(code, EmptyTree)
    /\ aliasToPath = BuildAliasToPath(code, [x \in {} |-> <<>>])
    /\ writes = <<>>
    /\ arr = code
    /\ file = Loaded
    /\ last = NoReq
    /\ ops = 0

Init ==
    /\ \E code \in InitConfigs : NewProxy(code)
    /\ ConcIdle
    /\ TunnelIdle
    /\ AuxIdle

\* registerHandler, a body that does not decode: logged, nothing written, so
\* net/http answers with its implicit 200.
RegisterUndecodable ==
    /\ ops < MaxOps
    /\ ops' = ops + 1
    /\ last' = [NoReq EXCEPT !.op = "register", !.status = 200]
    /\ UNCHANGED <<servers, portMap, aliasToPath, writes, arr, file>>
    /\ UNCHANGED <<concVars, tunVars, auxVars>>

\* registerHandler on a decoded body {folder, name, port}.
Register(folder, name, portStr) ==
    LET a == Atoi(portStr)
        req == [NoReq EXCEPT !.op = "register", !.decoded = TRUE,
                             !.folder = folder, !.name = name, !.port = portStr,
                             !.reuse = (last.op = "remove" /\ last.status = 204
                                        /\ last.name = name)]
    IN  /\ ops < MaxOps
        /\ ops' = ops + 1
        /\ IF ~a.ok
           THEN /\ last' = [req EXCEPT !.status = 200]
                /\ UNCHANGED <<servers, portMap, aliasToPath, writes, arr, file>>
           ELSE IF Conflict(servers, name, a.val)
           THEN /\ last' = [req EXCEPT !.status = 400]
                /\ UNCHANGED <<servers, portMap, aliasToPath, writes, arr, file>>
           ELSE /\ servers' = Append(servers, Server(folder, name, a.val))
                /\ \E realloc \in Reallocs(arr, Len(servers)) :
                       /\ arr' = AppendArr(arr, Len(servers), Server(folder, name, a.val), realloc)
                       /\ writes' = GoWriteConfig(writes, arr, Len(servers), realloc)
                /\ UNCHANGED file
                /\ portMap' = InsertServer(portMap, Server(folder, name, a.val))
                /\ aliasToPath' = [x \in (DOMAIN aliasToPath) \cup {name} |->
                                     IF x = name THEN folder ELSE aliasToPath[x]]
                /\ last' = [req EXCEPT !.status = 200]
        /\ UNCHANGED <<concVars, tunVars, auxVars>>

\* removeHandler for DELETE /remove/{name}.
Remove(name) ==
    LET req == [NoReq EXCEPT !.op = "remove", !.decoded = TRUE, !.name = name]
    IN  /\ ops < MaxOps
        /\ ops' = ops + 1
        /\ IF name \notin DOMAIN aliasToPath
           THEN /\ last' = [req EXCEPT !.status = 400]
                /\ UNCHANGED <<servers, portMap, aliasToPath, arr>>
           ELSE /\ servers' = RemoveServer(servers, name)
                /\ arr' = Cut(arr, Len(servers), CutIndex(servers, name))
                /\ portMap' = RemoveRoute(portMap, name)
                /\ aliasToPath' = RemoveAlias(aliasToPath, name)
                /\ last' = [req EXCEPT !.status = 204,
                                       !.removed = FindServer(servers, name)]
        /\ UNCHANGED <<writes, file>>
        /\ UNCHANGED <<concVars, tunVars, auxVars>>

Next ==
    \/ RegisterUndecodable
    \/ \E f \in Folders, n \in Names, q \in PortStrs : Register(f, n, q)
    \/ \E n \in Names : Remove(n)

Spec == Init /\ [][Next]_vars

----------------------------------------------------------------------------
(* The configuration writes.  registerHandler starts one goroutine per      *)
(* accepted registration; the goroutines run when the scheduler lets them,  *)
(* in any order, between and after the requests.  yaml.Marshal and          *)
(* ioutil.WriteFile of one goroutine are taken as one step.                 *)

MaxPersistOps == 3  \* management requests in one run with configuration writes

PersistConfigs == { c \in InitConfigs : Len(c) <= 1 }
PersistFolders == { <<SL, "a">>, <<SL, "c", SL, "d">> }
PersistPortStrs == { <<"1">>, <<"2">>, <<"3">> }

\* WriteConfig(c, config) in goroutine i: marshal the backends the goroutine's
\* slice header reaches, write them to the file.  A failed WriteFile leaves
\* the file as it was; its error is dropped (the test is on err, and the go
\* statement discards the result).
WriteConfig(i, ok) ==
    /\ i \in 1..Len(writes)
    /\ ~writes[i].done
    /\ file' = IF ok THEN Written(Marshal(writes[i], arr)) ELSE file
    /\ writes' = [writes EXCEPT ![i] = [n |-> @.n, shared |-> FALSE, own |-> <<>>,
                                         done |-> TRUE, err |-> ~ok]]
    /\ UNCHANGED <<servers, portMap, aliasToPath, arr, last, ops>>
    /\ UNCHANGED <<concVars, tunVars, auxVars>>

PersistInit ==
    /\ \E code \in PersistConfigs : NewProxy(code)
    /\ ConcIdle
    /\ TunnelIdle
    /\ AuxIdle

PersistNext ==
    \/ /\ ops < MaxPersistOps
       /\ \E f \in PersistFolders, n \in Names, q \in PersistPortStrs : Register(f, n, q)
    \/ /\ ops < MaxPersistOps
       /\ \E n \in Names : Remove(n)
    \/ \E i \in 1..MaxPersistOps, ok \in BOOLEAN : WriteConfig(i, ok)

PersistSpec == PersistInit /\ [][PersistNext]_vars

----------------------------------------------------------------------------
(* Concurrent management handlers.  net/http serves every request on its   *)
(* own goroutine and Proxy holds no lock, so the statements of the         *)
(* handlers interleave.  One step is one statement of the handler.         *)

Handlers == 1..NumHandlers
ConcFolders == { <<SL, "a">>, <<SL, "a", SL, "b">> }
ConcPortStrs == { <<"1">>, <<"2">> }
ConcInitConfigs == { c \in InitConfigs : Len(c) <= 1 /\ \A i \in 1..Len(c) : c[i].Path \in ConcFolders }

ConcInit ==
    /\ \E code \in ConcInitConfigs : NewProxy(code)
    /\ hpc = [h \in Handlers |-> "idle"]
    /\ hreq = [h \in Handlers |-> NoReq]
    /\ observed = NoObs
    /\ TunnelIdle
    /\ AuxIdle

Goto(h, pc) == hpc' = [hpc EXCEPT ![h] = pc]

Respond(h, code) ==
    /\ hreq' = [hreq EXCEPT ![h].status = code]
    /\ Goto(h, "idle")

\* A POST /register arrives; body decoded and port converted (lines 735-748).
StartRegister(h, folder, name, portStr) ==
    /\ hpc[h] = "idle"
    /\ ops < MaxConcOps
    /\ Atoi(portStr).ok
    /\ ops' = ops + 1
    /\ hreq' = [hreq EXCEPT ![h] = [NoReq EXCEPT !.op = "register", !.decoded = TRUE,
                                      !.folder = folder, !.name = name, !.port = portStr]]
    /\ Goto(h, "check")
    /\ UNCHANGED <<servers, portMap, aliasToPath, writes, arr, file, last, observed, tunVars, auxVars>>

\* The duplicate check over p.code.Servers.
RegCheck(h) ==
    /\ hpc[h] = "check"
    /\ IF Conflict(servers, hreq[h].name, Atoi(hreq[h].port).val)
       THEN Respond(h, 400)
       ELSE Goto(h, "append") /\ UNCHANGED hreq
    /\ UNCHANGED <<regVars, observed, tunVars, auxVars>>

\* p.code.Servers = append(...), then `go WriteConfig(p.code, p.config)`.
RegAppend(h) ==
    /\ hpc[h] = "append"
    /\ servers' = Append(servers, Server(hreq[h].folder, hreq[h].name, Atoi(hreq[h].port).val))
    /\ \E realloc \in Reallocs(arr, Len(servers)) :
           /\ arr' = AppendArr(arr, Len(servers),
                               Server(hreq[h].folder, hreq[h].name, Atoi(hreq[h].port).val),
                               realloc)
           /\ writes' = GoWriteConfig(writes, arr, Len(servers), realloc)
    /\ Goto(h, "insPath")
    /\ UNCHANGED <<portMap, aliasToPath, file, last, ops, hreq, observed, tunVars, auxVars>>

RegInsert(h, pc, key, nextPc) ==
    /\ hpc[h] = pc
    /\ portMap' = Insert(portMap, key, Atoi(hreq[h].port).val)
    /\ Goto(h, nextPc)
    /\ UNCHANGED <<servers, aliasToPath, writes, arr, file, last, ops, hreq, observed, tunVars, auxVars>>

RegInsertPath(h) == RegInsert(h, "insPath", hreq[h].folder, "insDir")
RegInsertDir(h) == RegInsert(h, "insDir", Dir(hreq[h].folder), "insAlias")
RegInsertAlias(h) == RegInsert(h, "insAlias", SlashName(hreq[h].name), "setAlias")

\* p.aliasToPath[data.Name] = data.Folder, then WriteHeader(200).
RegSetAlias(h) ==
    /\ hpc[h] = "setAlias"
    /\ aliasToPath' = [x \in (DOMAIN aliasToPath) \cup {hreq[h].name} |->
                          IF x = hreq[h].name THEN hreq[h].folder ELSE aliasToPath[x]]
    /\ Respond(h, 200)
    /\ UNCHANGED <<servers, portMap, writes, arr, file, last, ops, observed, tunVars, auxVars>>

\* A DELETE /remove/{name} arrives; the alias index is consulted.
StartRemove(h, name) ==
    /\ hpc[h] = "idle"
    /\ ops < MaxConcOps
    /\ ops' = ops + 1
    /\ IF name \notin DOMAIN aliasToPath
       THEN /\ hreq' = [hreq EXCEPT ![h] = [NoReq EXCEPT !.op = "remove", !.decoded = TRUE,
                                                  !.name = name, !.status = 400]]
            /\ UNCHANGED hpc
       ELSE /\ hreq' = [hreq EXCEPT ![h] = [NoReq EXCEPT !.op = "remove", !.decoded = TRUE,
                                                  !.name = name]]
            /\ Goto(h, "rmServer")
    /\ UNCHANGED <<servers, portMap, aliasToPath, writes, arr, file, last, observed, tunVars, auxVars>>

RmServer(h) ==
    /\ hpc[h] = "rmServer"
    /\ servers' = RemoveServer(servers, hreq[h].name)
    /\ arr' = Cut(arr, Len(servers), CutIndex(servers, hreq[h].name))
    /\ Goto(h, "rmRoute")
    /\ UNCHANGED <<portMap, aliasToPath, writes, file, last, ops, hreq, observed, tunVars, auxVars>>

RmRoute(h) ==
    /\ hpc[h] = "rmRoute"
    /\ portMap' = RemoveRoute(portMap, hreq[h].name)
    /\ Goto(h, "rmAlias")
    /\ UNCHANGED <<servers, aliasToPath, writes, arr, file, last, ops, hreq, observed, tunVars, auxVars>>

RmAlias(h) ==
    /\ hpc[h] = "rmAlias"
    /\ aliasToPath' = RemoveAlias(aliasToPath, hreq[h].name)
    /\ Respond(h, 204)
    /\ UNCHANGED <<servers, portMap, writes, arr, file, last, ops, observed, tunVars, auxVars>>

\* A dispatch lookup for alias name, running between the statements of the
\* management handlers: what it finds of the alias in the collection
\* (getPort, health handlers), in the alias index (websocketHandler) and in
\* the routing table (codeServerStatusHandler: Get("/" + name)).
Lookup(name) ==
    /\ observed = NoObs
    /\ observed' = [name |-> name,
                    inServers |-> \E i \in 1..Len(servers) : servers[i].Alias = name,
                    inIndex |-> name \in DOMAIN aliasToPath,
                    routed |-> Get(portMap, SlashName(name)).ok]
    /\ UNCHANGED <<regVars, hpc, hreq, tunVars, auxVars>>

ConcNext ==
    \/ \E h \in Handlers, f \in ConcFolders, n \in Names, q \in ConcPortStrs :
           StartRegister(h, f, n, q)
    \/ \E h \in Handlers : RegCheck(h)
    \/ \E h \in Handlers : RegAppend(h)
    \/ \E h \in Handlers : RegInsertPath(h)
    \/ \E h \in Handlers : RegInsertDir(h)
    \/ \E h \in Handlers : RegInsertAlias(h)
    \/ \E h \in Handlers : RegSetAlias(h)
    \/ \E h \in Handlers, n \in Names : StartRemove(h, n)
    \/ \E h \in Handlers : RmServer(h)
    \/ \E h \in Handlers : RmRoute(h)
    \/ \E h \in Handlers : RmAlias(h)
    \/ \E n \in Names : Lookup(n)

SpecConc == ConcInit /\ [][ConcNext]_vars

----------------------------------------------------------------------------
(* Duplex tunnel: websocketHandler, transfer and tunnel.  One session; the *)
(* handler goroutine and the two transfer goroutines interleave with the   *)
(* remote ends (backend and client), which send messages and close.        *)

Conns == {"back", "front"}
Dirs == {"b2f", "f2b"}

\* go p.transfer(front, back, b2f); go p.transfer(back, front, f2b)
Src(d) == IF d = "b2f" THEN "back" ELSE "front"
Dst(d) == IF d = "b2f" THEN "front" ELSE "back"

Local(c) == IF c = "back" THEN back ELSE front

TunnelInit ==
    /\ NewProxy(<<>>)
    /\ ConcIdle
    /\ AuxIdle
    /\ wpc = "dial"
    /\ wstatus = 0
    /\ back = "none"
    /\ front = "none"
    /\ peer = [c \in Conns |-> TRUE]
    /\ inq = [c \in Conns |-> <<>>]
    /\ outq = [c \in Conns |-> <<>>]
    /\ sent = [c \in Conns |-> <<>>]
    /\ rpc = [d \in Dirs |-> "idle"]
    /\ rmsg = [d \in Dirs |-> 0]
    /\ chan = [d \in Dirs |-> 0]
    /\ first = "none"

\* websocket.DefaultDialer.Dial succeeds: back is open, `defer back.Close()`.
DialOk ==
    /\ wpc = "dial"
    /\ back' = "open"
    /\ wpc' = "upgrade"
    /\ UNCHANGED <<wstatus, front, peer, inq, outq, sent, rpc, rmsg, chan, first>>
    /\ UNCHANGED <<regVars, concVars, auxVars>>

DialFailNoReturn ==
    /\ wpc = "dial"
    /\ wstatus' = 502
    /\ wpc' = "upgrade"
    /\ UNCHANGED <<back, front, peer, inq, outq, sent, rpc, rmsg, chan, first>>
    /\ UNCHANGED <<regVars, concVars, auxVars>>

\* Dial fails: 502 and return.
DialFail ==
    /\ wpc = "dial"
    /\ wstatus' = 502
    /\ wpc' = "done"
    /\ UNCHANGED <<back, front, peer, inq, outq, sent, rpc, rmsg, chan, first>>
    /\ UNCHANGED <<regVars, concVars, auxVars>>

\* p.upgrader.Upgrade succeeds: front is open, `defer front.Close()`.
UpgradeOk ==
    /\ wpc = "upgrade"
    /\ front' = "open"
    /\ wpc' = "spawn"
    /\ UNCHANGED <<wstatus, back, peer, inq, outq, sent, rpc, rmsg, chan, first>>
    /\ UNCHANGED <<regVars, concVars, auxVars>>

\* Upgrade fails: 500 and return; the deferred back.Close() runs.
UpgradeFail ==
    /\ wpc = "upgrade"
    /\ wstatus' = 500
    /\ wpc' = "closeBack"
    /\ UNCHANGED <<back, front, peer, inq, outq, sent, rpc, rmsg, chan, first>>
    /\ UNCHANGED <<regVars, concVars, auxVars>>

\* The two `go p.transfer(...)` statements.
Spawn ==
    /\ wpc = "spawn"
    /\ rpc' = [d \in Dirs |-> "read"]
    /\ wpc' = "select"
    /\ UNCHANGED <<wstatus, back, front, peer, inq, outq, sent, rmsg, chan, first>>
    /\ UNCHANGED <<regVars, concVars, auxVars>>

\* transfer: after `ch <- terr` the for loop goes round again, there is no
\* return.
AfterSend(d) == "read"

\* select { case <-f2b: return; case <-b2f: return }: the receive is the
\* rendezvous with a transfer goroutine blocked in `ch <- terr`.
Select(d) ==
    /\ wpc = "select"
    /\ rpc[d] = "send"
    /\ chan' = [chan EXCEPT ![d] = @ + 1]
    /\ first' = d
    /\ rpc' = [rpc EXCEPT ![d] = AfterSend(d)]
    /\ wpc' = "closeFront"
    /\ UNCHANGED <<wstatus, back, front, peer, inq, outq, sent, rmsg>>
    /\ UNCHANGED <<regVars, concVars, auxVars>>

DeferredFrontLeaked(c) == c

\* defer front.Close()
DeferredFront(c) == "closed"

DeferredBackLeaked(c) == c

\* defer back.Close()
DeferredBack(c) == "closed"

\* Deferred calls run last-in first-out: front.Close(), then back.Close().
CloseFront ==
    /\ wpc = "closeFront"
    /\ front' = DeferredFront(front)
    /\ wpc' = "closeBack"
    /\ UNCHANGED <<wstatus, back, peer, inq, outq, sent, rpc, rmsg, chan, first>>
    /\ UNCHANGED <<regVars, concVars, auxVars>>

CloseBack ==
    /\ wpc = "closeBack"
    /\ back' = DeferredBack(back)
    /\ wpc' = "done"
    /\ UNCHANGED <<wstatus, front, peer, inq, outq, sent, rpc, rmsg, chan, first>>
    /\ UNCHANGED <<regVars, concVars, auxVars>>

\* tunnel: src.NextReader() returns the next message.
ReadMsg(d) ==
    /\ rpc[d] = "read"
    /\ Local(Src(d)) = "open"
    /\ inq[Src(d)] # <<>>
    /\ rmsg' = [rmsg EXCEPT ![d] = Head(inq[Src(d)])]
    /\ inq' = [inq EXCEPT ![Src(d)] = Tail(@)]
    /\ rpc' = [rpc EXCEPT ![d] = "write"]
    /\ UNCHANGED <<wpc, wstatus, back, front, peer, outq, sent, chan, first>>
    /\ UNCHANGED <<regVars, concVars, auxVars>>

\* tunnel: src.NextReader() fails: the connection was closed by the handler,
\* or the remote end closed and everything it sent has been read.
ReadErr(d) ==
    /\ rpc[d] = "read"
    /\ \/ Local(Src(d)) = "closed"
       \/ inq[Src(d)] = <<>> /\ ~peer[Src(d)]
    /\ rpc' = [rpc EXCEPT ![d] = "send"]
    /\ UNCHANGED <<wpc, wstatus, back, front, peer, inq, outq, sent, rmsg, chan, first>>
    /\ UNCHANGED <<regVars, concVars, auxVars>>

DeliverFront(q, m) == <<m>> \o q

\* The message leaves on the destination connection, after those before it.
Deliver(q, m) == Append(q, m)

\* tunnel: dst.NextWriter, io.Copy and the deferred w.Close() deliver the
\* message.
WriteMsg(d) ==
    /\ rpc[d] = "write"
    /\ Local(Dst(d)) = "open"
    /\ peer[Dst(d)]
    /\ outq' = [outq EXCEPT ![Dst(d)] = Deliver(@, rmsg[d])]
    /\ rpc' = [rpc EXCEPT ![d] = "read"]
    /\ UNCHANGED <<wpc, wstatus, back, front, peer, inq, sent, rmsg, chan, first>>
    /\ UNCHANGED <<regVars, concVars, auxVars>>

\* tunnel: the write fails in w.Close(), whose error the defer drops: tunnel
\* returns nil and the message is lost.
WriteLost(d) ==
    /\ rpc[d] = "write"
    /\ Local(Dst(d)) = "open"
    /\ ~peer[Dst(d)]
    /\ rpc' = [rpc EXCEPT ![d] = "read"]
    /\ UNCHANGED <<wpc, wstatus, back, front, peer, inq, outq, sent, rmsg, chan, first>>
    /\ UNCHANGED <<regVars, concVars, auxVars>>

\* tunnel: dst.NextWriter or io.Copy fails: the connection was closed by the
\* handler, or the remote end is gone.
WriteErr(d) ==
    /\ rpc[d] = "write"
    /\ \/ Local(Dst(d)) = "closed"
       \/ ~peer[Dst(d)]
    /\ rpc' = [rpc EXCEPT ![d] = "send"]
    /\ UNCHANGED <<wpc, wstatus, back, front, peer, inq, outq, sent, rmsg, chan, first>>
    /\ UNCHANGED <<regVars, concVars, auxVars>>

\* The remote end of connection c sends its next message.
RemoteSend(c) ==
    /\ Local(c) = "open"
    /\ peer[c]
    /\ Len(sent[c]) < MaxMsgs
    /\ LET m == Len(sent[c]) + 1
       IN  /\ sent' = [sent EXCEPT ![c] = Append(@, m)]
           /\ inq' = [inq EXCEPT ![c] = Append(@, m)]
    /\ UNCHANGED <<wpc, wstatus, back, front, peer, outq, rpc, rmsg, chan, first>>
    /\ UNCHANGED <<regVars, concVars, auxVars>>

\* The remote end of connection c closes it.
RemoteClose(c) ==
    /\ Local(c) # "none"
    /\ peer[c]
    /\ peer' = [peer EXCEPT ![c] = FALSE]
    /\ UNCHANGED <<wpc, wstatus, back, front, inq, outq, sent, rpc, rmsg, chan, first>>
    /\ UNCHANGED <<regVars, concVars, auxVars>>

HandlerStep ==
    \/ DialOk
    \/ DialFail
    \/ UpgradeOk
    \/ UpgradeFail
    \/ Spawn
    \/ \E d \in Dirs : Select(d)
    \/ CloseFront
    \/ CloseBack

TransferStep(d) ==
    \/ ReadMsg(d)
    \/ ReadErr(d)
    \/ WriteMsg(d)
    \/ WriteLost(d)
    \/ WriteErr(d)

TunnelNext ==
    \/ HandlerStep
    \/ \E d \in Dirs : TransferStep(d)
    \/ \E c \in Conns : RemoteSend(c)
    \/ \E c \in Conns : RemoteClose(c)

\* The Go scheduler runs every runnable goroutine; the remote ends owe nothing.
TunnelSpec ==
    /\ TunnelInit
    /\ [][TunnelNext]_vars
    /\ WF_vars(HandlerStep)
    /\ \A d \in Dirs : WF_vars(TransferStep(d))

----------------------------------------------------------------------------
(* Forwarding of plain HTTP requests: forwardRequestHandler, between       *)
(* management requests that are served one at a time.                      *)

MaxDispOps == 2   \* management requests before and between forwarded requests

DispFolders == { <<SL, "a">>, <<SL, "a", SL, "b">>, <<SL, "c", SL, "d">> }
DispRegFolders == { <<SL, "a">>, <<SL, "c", SL, "d">> }
DispPortStrs == { <<"3">> }

DispConfigs ==
    { c \in InitConfigs :
        \A i \in 1..Len(c) : c[i].Path \in DispFolders /\ c[i].Port = i }

\* r.RequestURI of the forwarded requests
ProbePaths ==
    { <<SL, "x">>,
      <<SL, "a", SL, "x">>,
      <<SL, "a", "b", SL, "x">>,
      <<SL, "a", SL, "b", SL, "x">>,
      <<SL, "b", SL, "x">>,
      <<SL, "c", SL, "x">>,
      <<SL, "a">> \o LoginPath }

\* r.Referer(): none, or an absolute URL
Referers ==
    { <<>>,
      <<HostToken, SL, "c", SL, "x">>,
      <<":">> }

\* logger.Fatalf has ended the process: nothing is served any more.
Running == ~fwd.exit

\* What p.client.Do and the reading of resp.Body can yield: a transport error,
\* or a response whose body is read in full or fails after `cut` bytes.
Responses ==
    { [NoResp EXCEPT !.err = TRUE],
      [NoResp EXCEPT !.status = 200, !.hdr = {"ETag"}, !.body = <<"x">>],
      [NoResp EXCEPT !.status = 404, !.hdr = {"ETag"}, !.body = <<"x">>],
      [NoResp EXCEPT !.status = 302, !.hdr = {"Location"}],
      [NoResp EXCEPT !.status = 200, !.hdr = {"ETag"}, !.body = <<"x">>,
                     !.cerr = TRUE],
      [NoResp EXCEPT !.status = 200, !.hdr = {"ETag"}, !.body = <<"x", "y">>,
                     !.cerr = TRUE, !.cut = 1] }

\* http.Error(w, msg, 500): Content-Type and X-Content-Type-Options are set on
\* the headers already there, then the status and the message are written.
HttpError(hdr) ==
    [status |-> 500,
     hdr |-> hdr \cup {"Content-Type", "X-Content-Type-Options"},
     body |-> <<"error">>]

\* The answer the caller of forwardRequestHandler gets for backend outcome r.
\* resp.StatusCode is only logged: the first Write (or the return of the
\* handler) sends the implicit 200.  http.Error after a copy that has already
\* written bytes cannot change the status or the headers any more; its
\* message follows the bytes written.
ForwardReply(r) ==
    IF r.err THEN HttpError({})
    ELSE IF r.cerr /\ r.cut = 0 THEN HttpError(r.hdr)
    ELSE IF r.cerr
    THEN [status |-> 200, hdr |-> r.hdr,
          body |-> SubSeq(r.body, 1, r.cut) \o HttpError(r.hdr).body]
    ELSE [status |-> 200, hdr |-> r.hdr, body |-> r.body]

DispInit ==
    /\ \E code \in DispConfigs : NewProxy(code)
    /\ ConcIdle
    /\ TunnelIdle
    /\ AuxIdle

\* forwardRequestHandler for a request with RequestURI uri and Referer header
\* referer, the backend behaving as r.  A panic in getPort ends the request
\* with no reply (net/http recovers it and closes the connection); Fatalf in
\* getPort ends the process.
Forward(uri, referer, r) ==
    LET gp == GetPort(servers, portMap, uri, referer)
        cp == CleanRequestPath(portMap, uri)
        req == [NoFwd EXCEPT !.op = "forward", !.uri = uri, !.referer = referer,
                             !.at = ops]
    IN  /\ Running
        /\ fwd' = IF gp.fatal THEN [req EXCEPT !.exit = TRUE]
                  ELSE IF gp.panic THEN [req EXCEPT !.panic = TRUE]
                  ELSE [req EXCEPT !.port = gp.port, !.prefix = cp.prefix,
                                   !.path = cp.path, !.resp = r,
                                   !.reply = ForwardReply(r)]
        /\ UNCHANGED <<regVars, concVars, tunVars, health>>

\* r.RequestURI of the upgrade requests
WsPaths ==
    { <<SL, "a">>,
      <<SL, "a", SL>>,
      <<SL, "a", SL, "x">>,
      <<SL, "c", SL, "d">> }

TrimSuffix(s, k) ==
    IF Len(k) <= Len(s) /\ SubSeq(s, Len(s) - Len(k) + 1, Len(s)) = k
    THEN SubSeq(s, 1, Len(s) - Len(k)) ELSE s

\* websocketHandler, the port it dials: the route variable filePath is the
\* request path without its first "/"; it is replaced by the path of the
\* backend when it is an alias, its last "/" is cut off and the result is
\* looked up as an exact key.  A missing key leaves the port nil.
WsPort(t, m, uri) ==
    LET filePath == Tail(uri)
        full == IF filePath \in DOMAIN m THEN m[filePath] ELSE <<SL>> \o filePath
    IN  Get(t, TrimSuffix(full, <<SL>>))

\* websocketHandler up to the dial.  With a nil port the host of the backend
\* URL is malformed, the dial fails and the request is answered 502; with a
\* port the session goes on as in the tunnel specification.
Upgrade(uri) ==
    LET g == WsPort(portMap, aliasToPath, uri)
        req == [NoFwd EXCEPT !.op = "upgrade", !.uri = uri, !.at = ops,
                             !.port = g.val]
    IN  /\ Running
        /\ fwd' = IF g.ok THEN req ELSE [req EXCEPT !.reply.status = 502]
        /\ UNCHANGED <<regVars, concVars, tunVars, health>>

\* Dispatch: the backends answer every forwarded request the same way.
DispResponses == { r \in Responses : r.status = 200 /\ ~r.cerr }

DispNext ==
    \/ \E f \in DispRegFolders, n \in Names, q \in DispPortStrs :
           Running /\ ops < MaxDispOps /\ Register(f, n, q)
    \/ \E n \in Names : Running /\ ops < MaxDispOps /\ Remove(n)
    \/ \E uri \in ProbePaths, referer \in Referers, r \in DispResponses :
           Forward(uri, referer, r)
    \/ \E uri \in WsPaths : Upgrade(uri)

DispatchSpec == DispInit /\ [][DispNext]_vars

\* Answers: a fixed registry, every backend outcome.
ForwardNext ==
    \E uri \in ProbePaths, r \in Responses : Forward(uri, <<>>, r)

ForwardSpec == DispInit /\ [][ForwardNext]_vars

----------------------------------------------------------------------------
(* The router: route() registers the handlers on a gorilla/mux router,     *)
(* which tries the routes in the order of their registration.              *)

StatusPath == <<SL, "s", "t", "a", "t", "u", "s">>
RegisterPath == <<SL, "r", "e", "g", "i", "s", "t", "e", "r">>
RemovePath == <<SL, "r", "e", "m", "o", "v", "e">>
HealthcheckPath == <<SL, "h", "e", "a", "l", "t", "h", "c", "h", "e", "c", "k">>

\* The routes of route(), in order.  kind: the path template is a fixed path,
\* a fixed prefix followed by one variable segment, or "/{filePath:.*}".
\* methods: the Methods matcher ({} when there is none).  upgrade: the
\* Headers("Connection", "upgrade") matcher.
Routes ==
    << [kind |-> "exact", p |-> <<SL>>, methods |-> {}, upgrade |-> FALSE,
        h |-> "healthCheckHandler"],
       [kind |-> "var", p |-> StatusPath \o <<SL>>, methods |-> {"GET"},
        upgrade |-> FALSE, h |-> "codeServerStatusHandler"],
       [kind |-> "exact", p |-> StatusPath, methods |-> {"GET"}, upgrade |-> FALSE,
        h |-> "statusHandler"],
       [kind |-> "exact", p |-> RegisterPath, methods |-> {"POST"},
        upgrade |-> FALSE, h |-> "registerHandler"],
       [kind |-> "var", p |-> RemovePath \o <<SL>>, methods |-> {"DELETE"},
        upgrade |-> FALSE, h |-> "removeHandler"],
       [kind |-> "all", p |-> <<SL>>, methods |-> {}, upgrade |-> TRUE,
        h |-> "websocketHandler"],
       [kind |-> "all", p |-> <<SL>>, methods |-> {}, upgrade |-> FALSE,
        h |-> "forwardRequestHandler"] >>

\* The path template of route rt matches path.
PathMatches(rt, path) ==
    CASE rt.kind = "exact" -> path = rt.p
      [] rt.kind = "var" ->
            /\ HasPrefix(path, rt.p)
            /\ Len(path) > Len(rt.p)
            /\ \A i \in (Len(rt.p) + 1)..Len(path) : path[i] # SL
      [] OTHER -> HasPrefix(path, rt.p)

RouteMatches(rt, method, path, upgrade) ==
    /\ PathMatches(rt, path)
    /\ rt.methods = {} \/ method \in rt.methods
    /\ rt.upgrade => upgrade

\* Router.Match: the handler of the first route that matches.  When an
\* earlier route matched but for its method, the release of the router
\* decides between answering 405 and going on to the later route, so both are
\* possible outcomes.
Route(method, path, upgrade) ==
    LET hit == { i \in 1..Len(Routes) : RouteMatches(Routes[i], method, path, upgrade) }
        i == CHOOSE x \in hit : \A y \in hit : x <= y
        mismatch == \E j \in 1..(i - 1) :
                        /\ PathMatches(Routes[j], path)
                        /\ Routes[j].upgrade => upgrade
                        /\ ~(Routes[j].methods = {} \/ method \in Routes[j].methods)
    IN  { Routes[i].h } \cup (IF mismatch THEN { "405" } ELSE {})

Methods == { "GET", "POST", "DELETE" }

RoutePaths ==
    { <<SL>>, HealthcheckPath, StatusPath, StatusPath \o <<SL, "a">>,
      RegisterPath, RemovePath \o <<SL, "a">>, <<SL, "a", SL, "x">> }

\* p.ServeHTTP: the router picks the handler for a request.
Serve(method, path, upgrade) ==
    /\ Running
    /\ \E h \in Route(method, path, upgrade) :
           fwd' = [NoFwd EXCEPT !.op = "route", !.method = method, !.uri = path,
                                !.upgrade = upgrade, !.at = ops, !.handler = h]
    /\ UNCHANGED <<regVars, concVars, tunVars, health>>

RouteNext ==
    \E method \in Methods, path \in RoutePaths, upgrade \in BOOLEAN :
        Serve(method, path, upgrade)

RouteSpec == DispInit /\ [][RouteNext]_vars

----------------------------------------------------------------------------
(* Health reporting: checkCodeServerStatus and the three handlers that     *)
(* call it, on a fixed registry.                                           *)

\* The body of a /ping answer as json.Unmarshal sees it: not JSON at all, or
\* an object with or without a "hostname" member.
NotJson == [valid |-> FALSE, has |-> FALSE, hostname |-> ""]

Identified == [valid |-> TRUE, has |-> TRUE, hostname |-> "h"]

Bodies ==
    { NotJson,
      [valid |-> TRUE, has |-> FALSE, hostname |-> ""],
      [valid |-> TRUE, has |-> TRUE, hostname |-> ""],
      Identified }

OtherStatuses == { 201, 500 }

\* What http.Get on /ping and the reading of the body can yield: a transport
\* error (refused, timed out), or an answer whose body is read or fails to be.
ProbeOutcomes ==
    { [err |-> TRUE, status |-> 0, readErr |-> FALSE, body |-> NotJson] }
    \cup { [err |-> FALSE, status |-> 200, readErr |-> FALSE, body |-> b] :
             b \in Bodies }
    \cup { [err |-> FALSE, status |-> c, readErr |-> FALSE, body |-> Identified] :
             c \in OtherStatuses }
    \cup { [err |-> FALSE, status |-> 200, readErr |-> TRUE, body |-> NotJson] }

\* json.Unmarshal(b, &codeServerPingResponse)
Unmarshal(body) ==
    IF ~body.valid THEN [err |-> TRUE, Hostname |-> ""]
    ELSE [err |-> FALSE, Hostname |-> IF body.has THEN body.hostname ELSE ""]

CheckCodeServerStatus2xx(o) ==
    IF ~o.err /\ o.status \in 200..299
    THEN IF o.readErr \/ Unmarshal(o.body).err THEN [state |-> "", err |-> TRUE]
         ELSE [state |-> IF Unmarshal(o.body).Hostname # "" THEN "OK" ELSE "NOT OK",
               err |-> FALSE]
    ELSE [state |-> "NOT OK", err |-> FALSE]

\* checkCodeServerStatus for probe outcome o: the returned (state, err).
CheckCodeServerStatus(o) ==
    IF ~o.err /\ o.status = 200
    THEN IF o.readErr THEN [state |-> "", err |-> TRUE]
         ELSE IF Unmarshal(o.body).err THEN [state |-> "", err |-> TRUE]
         ELSE [state |-> IF Unmarshal(o.body).Hostname # "" THEN "OK" ELSE "NOT OK",
               err |-> FALSE]
    ELSE [state |-> "NOT OK", err |-> FALSE]

\* The loop of healthCheckHandler and statusHandler: one probe and one entry
\* per server, in the order of p.code.Servers, an error only logged.
Aggregate(op, outs) ==
    [op |-> op,
     name |-> <<>>,
     probes |-> outs,
     status |-> 200,
     entries |-> [i \in 1..Len(servers) |->
                    [Port |-> servers[i].Port,
                     State |-> CheckCodeServerStatus(outs[i]).state,
                     Alias |-> servers[i].Alias]],
     logged |-> Cardinality({ i \in 1..Len(servers) :
                                CheckCodeServerStatus(outs[i]).err })]

\* healthCheckHandler (GET /), answered as JSON.
HealthCheck(outs) ==
    /\ health' = Aggregate("health", outs)
    /\ UNCHANGED <<regVars, concVars, tunVars, fwd>>

\* statusHandler (GET /status), answered as protobuf.
Status(outs) ==
    /\ health' = Aggregate("status", outs)
    /\ UNCHANGED <<regVars, concVars, tunVars, fwd>>

\* codeServerStatusHandler (GET /status/{name}): 400 when "/" + name is not a
\* key of the routing table, else one probe of the port stored there.
CodeServerStatus(name, o) ==
    LET g == Get(portMap, SlashName(name))
        c == CheckCodeServerStatus(o)
    IN  /\ health' =
               IF ~g.ok
               THEN [NoHealth EXCEPT !.op = "name", !.name = name, !.status = 400]
               ELSE [op |-> "name", name |-> name, probes |-> <<o>>,
                     status |-> 200,
                     entries |-> <<[Port |-> g.val, State |-> c.state,
                                    Alias |-> <<>>]>>,
                     logged |-> IF c.err THEN 1 ELSE 0]
        /\ UNCHANGED <<regVars, concVars, tunVars, fwd>>

HealthNext ==
    \/ \E outs \in [1..Len(servers) -> ProbeOutcomes] : HealthCheck(outs)
    \/ \E outs \in [1..Len(servers) -> ProbeOutcomes] : Status(outs)
    \/ \E n \in Names, o \in ProbeOutcomes : CodeServerStatus(n, o)

HealthSpec == DispInit /\ [][HealthNext]_vars

----------------------------------------------------------------------------
(* Claims about the registry under sequential management requests          *)

Backends == { servers[i] : i \in 1..Len(servers) }

Applied(r) == r.op = "register" /\ r.decoded /\ Atoi(r.port).ok /\ r.status = 200

\* C1: for every backend b of the collection, the longest-prefix lookups of
\* b.path, of b.path + "/" + suffix and of "/" + b.alias (getPort, no referer)
\* all yield b.port.
C1_LookupsYieldOwnPort ==
    \A b \in Backends :
        /\ GetPort(servers, portMap, b.Path, <<>>).port = b.Port
        /\ \A suf \in Suffixes :
               GetPort(servers, portMap, b.Path \o <<SL>> \o suf, <<>>).port = b.Port
        /\ GetPort(servers, portMap, SlashName(b.Alias), <<>>).port = b.Port

HasOwnEntries(b) ==
    /\ Get(portMap, b.Path) = [ok |-> TRUE, val |-> b.Port]
    /\ Get(portMap, Dir(b.Path)) = [ok |-> TRUE, val |-> b.Port]
    /\ Get(portMap, SlashName(b.Alias)) = [ok |-> TRUE, val |-> b.Port]

InUse(name, port) == \E b \in Backends : b.Alias = name \/ b.Port = port

\* C4: a register whose name or port is in use is answered 400 and leaves the
\* collection, the routing table and the alias index as they were and starts
\* no configuration write.
C4_ConflictLeavesState ==
    [][ (last'.op = "register" /\ ops' = ops + 1 /\ last'.decoded
         /\ Atoi(last'.port).ok /\ InUse(last'.name, Atoi(last'.port).val))
        => (/\ last'.status = 400
            /\ servers' = servers
            /\ portMap' = portMap
            /\ aliasToPath' = aliasToPath
            /\ writes' = writes) ]_vars

\* C4 witness: a register was rejected with 400 because its port is in use
\* although its name is free.
C4_Witness ==
    /\ last.op = "register"
    /\ last.status = 400
    /\ \A b \in Backends : b.Alias # last.name
    /\ \E b \in Backends : b.Port = Atoi(last.port).val

\* C5: no two backends of the collection share an alias, no two share a port.
C5_UniqueAliasAndPort ==
    \A i, j \in 1..Len(servers) :
        i # j => /\ servers[i].Alias # servers[j].Alias
                 /\ servers[i].Port # servers[j].Port

\* C5 witness: a register was applied and the collection holds two backends.
C5_Witness == Applied(last) /\ Len(servers) = 2 /\ ops = MaxOps

\* C6: after a successful remove(alias) an exact get of "/" + alias reports
\* not-found, and a following register reusing the alias with a port no
\* remaining backend uses is answered 200 and makes "/" + alias resolve to the
\* new port.
C6_RemoveThenReuse ==
    /\ [](last.op = "remove" /\ last.status = 204
            => ~Get(portMap, SlashName(last.name)).ok)
    /\ [][ (last.op = "remove" /\ last.status = 204
            /\ last'.op = "register" /\ last'.decoded /\ last'.name = last.name
            /\ Atoi(last'.port).ok
            /\ \A b \in Backends : b.Port # Atoi(last'.port).val)
           => (/\ last'.status = 200
               /\ Get(portMap', SlashName(last.name))
                    = [ok |-> TRUE, val |-> Atoi(last'.port).val]
               /\ GetPort(servers', portMap', SlashName(last.name), <<>>).port
                    = Atoi(last'.port).val) ]_vars

\* C6 witness: a register that reuses the alias removed just before it was
\* applied.
C6_Witness == Applied(last) /\ last.reuse

Remaining(k) == \E b \in Backends : k \in {b.Path, Dir(b.Path), SlashName(b.Alias)}

\* C7: after a successful remove of backend b no routing entry is left over
\* from b: its path, "/alias" and parent-directory keys are gone unless a
\* remaining backend owns the key, and no key resolves to b.port any more.
C7_NoStaleEntries ==
    (last.op = "remove" /\ last.status = 204) =>
        LET b == last.removed
        IN  /\ \A k \in {b.Path, Dir(b.Path), SlashName(b.Alias)} :
                   k \in DOMAIN portMap => Remaining(k)
            /\ \A k \in DOMAIN portMap : portMap[k] # b.Port

----------------------------------------------------------------------------
(* Claims about concurrent management handlers                             *)

\* C3: a dispatch lookup running concurrently with register and remove never
\* observes a partially applied change: the alias is in the collection exactly
\* when it is in the alias index, and then its "/alias" routing entry exists.
C3_NoPartialObservation ==
    observed # NoObs =>
        /\ observed.inServers = observed.inIndex
        /\ observed.inServers => observed.routed

----------------------------------------------------------------------------
(* Claims about the duplex tunnel                                          *)

Ended == wpc = "done"

\* C8 as stated: when the backend has sent its messages and closed, and the
\* client has not closed, the ended session has delivered exactly the
\* backend's messages, in order, to the client.
C8_BackendCloseDeliversAll ==
    (Ended /\ front # "none" /\ ~peer["back"] /\ peer["front"])
        => outq["front"] = sent["back"]

\* C8 amended: the client side receives, in order, a prefix of the messages
\* the backend sent, and all of them when the session is ended by the
\* backend-to-client direction's signal while the client is still connected
\* (the session may be ended first by the client-to-backend direction failing
\* to write to the closed backend); once either remote end has closed, the
\* handler returns.
C8_Amended ==
    /\ [](HasPrefix(sent["back"], outq["front"]))
    /\ []((Ended /\ first = "b2f" /\ peer["front"]) => outq["front"] = sent["back"])
    /\ ((~peer["back"] \/ ~peer["front"]) ~> Ended)

\* C8 witness: the backend sent MaxMsgs messages and closed, the client got
\* them all and the handler returned.
C8_Witness ==
    /\ Ended
    /\ first = "b2f"
    /\ ~peer["back"]
    /\ peer["front"]
    /\ Len(sent["back"]) = MaxMsgs
    /\ outq["front"] = sent["back"]

\* C9: a transfer loop that has reported an error on its channel has stopped
\* (it neither reads, writes nor reports again), and once the select has
\* fired no transfer goroutine sits in a send that nobody will receive.
C9_RelayStopsAfterReport ==
    \A d \in Dirs :
        /\ chan[d] >= 1 => rpc[d] \notin {"read", "write", "send"}
        /\ first # "none" => rpc[d] # "send"

\* C10: once a completion signal is pending at the select, the session ends
\* with both connections closed, whatever the other direction's loop does; an
\* ended session never has exactly one of its two connections open.
C10_TeardownClosesBoth ==
    /\ [](Ended => ((back = "open") <=> (front = "open")))
    /\ []((Ended /\ first # "none") => (back = "closed" /\ front = "closed"))
    /\ ((wpc = "select" /\ \E d \in Dirs : rpc[d] = "send")
            ~> (Ended /\ back = "closed" /\ front = "closed"))

\* C10 witness: the session was ended by the backend-to-client signal while
\* the client-to-backend loop never reported and is still in its read.
C10_Witness ==
    /\ Ended
    /\ first = "b2f"
    /\ chan["f2b"] = 0
    /\ rpc["f2b"] = "read"
    /\ back = "closed"
    /\ front = "closed"

\* C11: when the dial fails the request is answered 502, the client-facing
\* upgrade is never attempted, no transfer goroutine is started and no
\* connection is open.
C11_DialFailure ==
    /\ [][ (wpc = "dial" /\ wpc' # "dial" /\ back' = "none")
           => (/\ wstatus' = 502
               /\ wpc' = "done"
               /\ front' = "none"
               /\ \A d \in Dirs : rpc'[d] = "idle") ]_vars
    /\ [](wstatus = 502 =>
            /\ Ended
            /\ back = "none"
            /\ front = "none"
            /\ \A d \in Dirs : rpc[d] = "idle")

\* C11 witness: the dial failed and the handler has returned.
C11_Witness == Ended /\ wstatus = 502 /\ back = "none"

----------------------------------------------------------------------------
(* Claims about dispatch: getPort and cleanRequestPath as the forwarding   *)
(* handler applies them                                                    *)

\* A request was forwarded and the registry is as it was then.
Forwarded == fwd.op = "forward" /\ fwd.at = ops

Dispatched == Forwarded /\ ~fwd.exit /\ ~fwd.panic

\* The routing-table keys that are string prefixes of p.
Matching(p) == { k \in DOMAIN portMap : HasPrefix(p, k) }

Longest(k, m) == k \in m /\ \A y \in m : Len(y) <= Len(k)

KeysOf(b) == { b.Path, Dir(b.Path), SlashName(b.Alias) }

Residual(s) == s # <<>> /\ Head(s) = SL /\ ~HasPrefix(s, LoginPath)

After(p, k) == SubSeq(p, Len(k) + 1, Len(p))

\* The path getPort resolves: the referer URL without scheme and host when
\* there is a referer, the request path otherwise.
Resolved ==
    IF fwd.referer = <<>> THEN fwd.uri ELSE SubSeq(fwd.referer, 2, Len(fwd.referer))

OnBoundary(k, p) == p = k \/ (Len(p) > Len(k) /\ p[Len(k) + 1] = SL)

\* C14: the key that longest-prefix resolution matches ends on a segment
\* boundary of the path (the path equals the key or goes on with "/"), in
\* cleanRequestPath and in getPort.
C14_SegmentBoundary ==
    Dispatched =>
        /\ fwd.prefix # <<>> => OnBoundary(fwd.prefix, fwd.uri)
        /\ LET m == { k \in Matching(Resolved) : OnBoundary(k, Resolved) }
           IN  IF m = {} THEN fwd.port = servers[1].Port
               ELSE \E k \in m : Longest(k, m) /\ fwd.port = portMap[k]

C16_RefererOverrides ==
    (Dispatched /\ fwd.referer # <<>>) =>
        LET ref == SubSeq(fwd.referer, 2, Len(fwd.referer))
            m == Matching(ref)
        IN  IF m = {} THEN fwd.port = servers[1].Port
            ELSE \E k \in m : Longest(k, m) /\ fwd.port = portMap[k]

\* C16 witness: the request path alone resolves to another port than the one
\* returned for the referer.
C16_Witness ==
    /\ Dispatched
    /\ fwd.referer # <<>>
    /\ \E k \in Matching(fwd.uri) :
           Longest(k, Matching(fwd.uri)) /\ portMap[k] # fwd.port

Under(p, k) == p = k \/ HasPrefix(p, k \o <<SL>>)

\* C17: after a register request for {folder, name, port} was answered 200,
\* a later forward of a path under "/" + name or under folder resolves to
\* that port.
C17_RegisteredResolves ==
    (Applied(last) /\ Forwarded /\ fwd.referer = <<>>
        /\ (Under(fwd.uri, SlashName(last.name)) \/ Under(fwd.uri, last.folder)))
        => (~fwd.panic /\ fwd.port = Atoi(last.port).val)

\* C20: the answer to a forward that the backend answered has the backend's
\* status code, headers and body.
C20_ResponseCopied ==
    (fwd.op = "forward" /\ ~fwd.panic /\ ~fwd.resp.err /\ ~fwd.resp.cerr)
        => /\ fwd.reply.status = fwd.resp.status
           /\ fwd.reply.hdr = fwd.resp.hdr
           /\ fwd.reply.body = fwd.resp.body

----------------------------------------------------------------------------
(* Claims about health reporting                                           *)

Probed == health.op # "none" /\ health.status = 200

\* The answer to the probe carries a non-empty identity.
HasIdentity(o) ==
    ~o.err /\ ~o.readErr /\ o.body.valid /\ o.body.has /\ o.body.hostname # ""

C19_StateNeverEmpty ==
    health.op \in {"health", "status"} =>
        /\ health.status = 200
        /\ Len(health.entries) = Len(servers)
        /\ \A i \in 1..Len(health.entries) :
               health.entries[i].State \in {"OK", "NOT OK"}

----------------------------------------------------------------------------
(* Claims about the management endpoints                                   *)

Rejectable(r) == r.op = "register" /\ (~r.decoded \/ ~Atoi(r.port).ok)

\* C21: a register request whose body does not decode, or whose port string
\* is not an integer, is answered with status 400.
C21_BadRegisterRejected == Rejectable(last) => last.status = 400

\* C22: a remove of an alias that no backend of the collection has is
\* answered 400 and leaves collection, routing table and alias index as they
\* were; a remove of a registered alias is answered 204, and afterwards no
\* backend of the collection has the alias and the alias index has no entry
\* for it.
C22_RemoveAnswers ==
    [][ (ops' = ops + 1 /\ last'.op = "remove") =>
            IF \E b \in Backends : b.Alias = last'.name
            THEN /\ last'.status = 204
                 /\ \A i \in 1..Len(servers') : servers'[i].Alias # last'.name
                 /\ last'.name \notin DOMAIN aliasToPath'
                 /\ Len(servers') = Len(servers) - 1
            ELSE /\ last'.status = 400
                 /\ UNCHANGED <<servers, portMap, aliasToPath>> ]_vars

\* C22 witness: a registered alias was removed with 204 while another
\* backend stays in the collection.
C22_Witness ==
    /\ last.op = "remove"
    /\ last.status = 204
    /\ last.removed.Alias = last.name
    /\ last.name \notin DOMAIN aliasToPath
    /\ Len(servers) = 1

----------------------------------------------------------------------------
(* Claims about what a forwarded request ends with                         *)

\* C23: no forwarded request makes the process exit: after every request the
\* process is running.
C23_ProcessKeepsRunning == fwd.op = "forward" => ~fwd.exit

\* C24: every forwarded request ends with a status code written to the
\* caller, in every registry state.
C24_DefiniteStatus == fwd.op = "forward" => fwd.reply.status \in 100..599

\* C25: an upgrade request is tunnelled to the port that plain-HTTP
\* resolution selects for its path: the port of the longest key that is a
\* prefix of it, the first backend's port when there is none.
C25_UpgradeSamePort ==
    (fwd.op = "upgrade" /\ fwd.at = ops /\ servers # <<>>) =>
        LET m == Matching(fwd.uri)
        IN  IF m = {} THEN fwd.port = servers[1].Port
            ELSE \E k \in m : Longest(k, m) /\ fwd.port = portMap[k]

\* C26: GET /status/{alias} is answered 400 exactly when no backend of the
\* collection has the alias, and otherwise 200 with the port of the backend
\* that has it and the state its probe yields.
C26_StatusByAlias ==
    health.op = "name" =>
        LET owners == { b \in Backends : b.Alias = health.name }
        IN  /\ health.status = 400 <=> owners = {}
            /\ owners = {} => health.entries = <<>>
            /\ owners # {} =>
                   /\ health.status = 200
                   /\ \E b \in owners : health.entries[1].Port = b.Port
                   /\ health.entries[1].State \in {"OK", "NOT OK", ""}

----------------------------------------------------------------------------
(* Claims about the router                                                 *)

\* The management handler the claim names for a path ("" for other paths).
ManagementHandler(path) ==
    IF path = <<SL>> \/ path = HealthcheckPath THEN "healthCheckHandler"
    ELSE IF path = StatusPath THEN "statusHandler"
    ELSE IF path = RegisterPath THEN "registerHandler"
    ELSE IF Under(path, StatusPath) THEN "codeServerStatusHandler"
    ELSE IF Under(path, RemovePath) THEN "removeHandler"
    ELSE ""

\* C27: a request whose path is a management path is handled by the
\* management handler of that path and never by a forwarding or tunnelling
\* handler, whatever backends are registered.
C27_ManagementNeverForwarded ==
    (fwd.op = "route" /\ ManagementHandler(fwd.uri) # "") =>
        fwd.handler = ManagementHandler(fwd.uri)

----------------------------------------------------------------------------
(* Claims about one direction of the tunnel                                *)

\* The number of messages direction d has read from its source.
Taken(d) == Len(sent[Src(d)]) - Len(inq[Src(d)])

\* C28: in each direction the messages reach the destination in the order in
\* which they were read from the source, and at most one message is in
\* flight: a message is read only when the one before it has been written
\* or given up.
C28_OrderedOneInFlight ==
    /\ [](\A d \in Dirs :
            LET out == outq[Dst(d)]
            IN  /\ \A i, j \in 1..Len(out) : i < j => out[i] < out[j]
                /\ \A i \in 1..Len(out) : out[i] <= Taken(d)
                /\ rpc[d] = "write" =>
                       /\ rmsg[d] = Taken(d)
                       /\ \A i \in 1..Len(out) : out[i] < rmsg[d])
    /\ [][ \A d \in Dirs :
             Taken(d)' # Taken(d) =>
                 /\ rpc[d] = "read"
                 /\ rpc'[d] = "write"
                 /\ Taken(d)' = Taken(d) + 1
                 /\ rmsg'[d] = Taken(d)' ]_vars

\* C28 witness: the client-to-backend direction has delivered MaxMsgs
\* messages, in the order the client sent them.
C28_Witness ==
    /\ Len(outq["back"]) = MaxMsgs
    /\ outq["back"] = sent["front"]
    /\ rpc["f2b"] = "read"

----------------------------------------------------------------------------
(* Claims about the answers of the forwarding handler                      *)

\* C29: a transport error while forwarding is answered with 502, an error
\* while copying the response body with 500, and the process keeps running.
C29_ErrorStatuses ==
    (fwd.op = "forward" /\ ~fwd.panic) =>
        /\ fwd.resp.err => fwd.reply.status = 502
        /\ fwd.resp.cerr => fwd.reply.status = 500
        /\ ~fwd.exit

----------------------------------------------------------------------------
(* Claims on the configuration writes                                      *)

SeqSet(q) == { q[i] : i \in 1..Len(q) }

\* Every configuration write that was started has returned, none with a
\* failed WriteFile.
Settled == \A i \in 1..Len(writes) : writes[i].done /\ ~writes[i].err

\* C31: once every scheduled configuration write has completed, the backends
\* in the configuration file are the backends of the in-memory collection,
\* after any sequence of register and remove operations.
C31_PersistedEqualsMemory ==
    (Settled /\ file.written) => SeqSet(file.servers) = Backends

\* C32: when register requests with the same alias, or with the same port,
\* run concurrently, the collection never comes to hold two backends with the
\* same alias or two with the same port: there are as many aliases, and as
\* many ports, in it as backends.
C32_ConcurrentRegistersExclusive ==
    /\ Cardinality({ b.Alias : b \in Backends }) = Len(servers)
    /\ Cardinality({ b.Port : b \in Backends }) = Len(servers)

----------------------------------------------------------------------------
(* Claims about what a remove leaves alone                                 *)

OwnKeys(b) == { b.Path, Dir(b.Path), SlashName(b.Alias) }

\* C33: a remove answered 204 changes nothing about the other backends: they
\* stay in the collection in their order, each keeps its alias-index entry,
\* and each keeps its routing entries for its path, its parent directory and
\* "/" + its alias, with the ports they had.
C33_RemoveFrame ==
    [][ (ops' = ops + 1 /\ last'.op = "remove" /\ last'.status = 204) =>
            /\ servers' = SelectSeq(servers, LAMBDA b : b.Alias # last'.name)
            /\ \A b \in Backends :
                   b.Alias # last'.name =>
                       /\ b.Alias \in DOMAIN aliasToPath'
                       /\ aliasToPath'[b.Alias] = aliasToPath[b.Alias]
                       /\ \A k \in OwnKeys(b) : Get(portMap', k) = Get(portMap, k) ]_vars

----------------------------------------------------------------------------
(* Claims relating the two lookups of one forward                          *)

\* C34: in a plain HTTP forward the prefix cleanRequestPath strips from the
\* request path is a routing key (path, parent directory or "/" + alias) of
\* a backend of the collection whose port is the port getPort selected, with
\* or without a referer.
C34_PrefixOfSelectedBackend ==
    (Dispatched /\ fwd.prefix # <<>>) =>
        \E b \in Backends : b.Port = fwd.port /\ fwd.prefix \in KeysOf(b)

----------------------------------------------------------------------------
(* Claims about upgrades after a remove                                    *)

\* C35: after a backend has been removed, an upgrade request addressed to it
\* by "/" + its alias or by its path dials no port of a backend that is
\* absent from the collection: it has no port, or the port of a backend of
\* the collection.
C35_NoTunnelToRemoved ==
    (/\ fwd.op = "upgrade" /\ fwd.at = ops
     /\ last.op = "remove" /\ last.status = 204
     /\ fwd.uri \in { SlashName(last.name), last.removed.Path })
        => (fwd.port = NoPort \/ \E b \in Backends : b.Port = fwd.port)

====
